---- MODULE Spec2Model ----
(***************************************************************************)
(* Model of the GitHub webhook endpoint of rust-server-hook:               *)
(*   src/src/main.rs    accept loop, Handler::call, handle,                *)
(*                      handle_push_event, Error, IntoResponse             *)
(*   src/src/github.rs  GithubHeader::from_request_parts, PushEvent        *)
(*                                                                         *)
(* Bytes on the wire are modelled as sequences of JSON lexemes (tokens);   *)
(* serde_json::from_slice is a recursive-descent parser over them, and     *)
(* serde_json::to_vec / to_string_pretty are serializers back to tokens.   *)
(* u64 values are four 16-bit limbs, most significant first.               *)
(***************************************************************************)
EXTENDS Integers, Sequences, FiniteSets, TLC

(* ------------------------------ bounds --------------------------------- *)

\* connections the clients open in the concurrent specification
MaxConns == 2

\* requests served on one connection (HTTP keep-alive)
MaxReqs == 1

\* failed accept() calls of the listener
MaxAcceptFails == 1

(* ------------------------------ u64 ------------------------------------ *)

\* a u64 from a small natural number (n < 2^31)
ToU64(n) == <<0, 0, n \div 65536, n % 65536>>

\* u64::MAX, main.rs:136
U64Max == <<65535, 65535, 65535, 65535>>

RECURSIVE LimbGt(_, _, _)
LimbGt(a, b, i) ==
    IF i > 4 THEN FALSE
    ELSE IF a[i] # b[i] THEN a[i] > b[i]
    ELSE LimbGt(a, b, i + 1)

\* a > b on u64
U64Gt(a, b) == LimbGt(a, b, 1)

\* the literal 1024 * 64 of main.rs:137
BodyLimit == ToU64(1024 * 64)

(* ------------------------------ JSON ----------------------------------- *)

\* lexemes of a body / of serialized output
P(c) == [k |-> "punct", v |-> c]
S(s) == [k |-> "str", v |-> s]
N(d) == [k |-> "num", v |-> d]
L(w) == [k |-> "lit", v |-> w]
\* a byte that starts no JSON lexeme
Junk == [k |-> "junk", v |-> "\\xFF"]
\* newline followed by `depth` levels of two-space indentation
NL(depth) == [k |-> "nl", v |-> ToString(depth)]

EmptyMap == [x \in {} |-> 0]

\* serde_json::Value
NullV == [t |-> "null", s |-> "", items |-> <<>>, m |-> EmptyMap]
BoolV(w) == [t |-> "bool", s |-> w, items |-> <<>>, m |-> EmptyMap]
NumV(d) == [t |-> "num", s |-> d, items |-> <<>>, m |-> EmptyMap]
StrV(s) == [t |-> "str", s |-> s, items |-> <<>>, m |-> EmptyMap]
ArrV(items) == [t |-> "arr", s |-> "", items |-> items, m |-> EmptyMap]
ObjV(m) == [t |-> "obj", s |-> "", items |-> <<>>, m |-> m]

\* Map::insert: a repeated key keeps the last value
MapInsert(m, key, val) ==
    [x \in (DOMAIN m) \cup {key} |-> IF x = key THEN val ELSE m[x]]

ParseFail == [ok |-> FALSE, val |-> NullV, next |-> 0]
ParseOk(v, j) == [ok |-> TRUE, val |-> v, next |-> j]

RECURSIVE ParseValue(_, _)
RECURSIVE ParseElems(_, _, _)
RECURSIVE ParseMembers(_, _, _)

\* one JSON value starting at token i
ParseValue(ts, i) ==
    IF i > Len(ts) THEN ParseFail
    ELSE LET tk == ts[i] IN
         CASE tk.k = "lit" ->
                IF tk.v = "null" THEN ParseOk(NullV, i + 1)
                ELSE ParseOk(BoolV(tk.v), i + 1)
           [] tk.k = "num" -> ParseOk(NumV(tk.v), i + 1)
           [] tk.k = "str" -> ParseOk(StrV(tk.v), i + 1)
           [] tk.k = "punct" /\ tk.v = "[" ->
                IF i + 1 <= Len(ts) /\ ts[i + 1] = P("]")
                THEN ParseOk(ArrV(<<>>), i + 2)
                ELSE ParseElems(ts, i + 1, <<>>)
           [] tk.k = "punct" /\ tk.v = "{" ->
                IF i + 1 <= Len(ts) /\ ts[i + 1] = P("}")
                THEN ParseOk(ObjV(EmptyMap), i + 2)
                ELSE ParseMembers(ts, i + 1, EmptyMap)
           [] OTHER -> ParseFail

\* the elements of a non-empty array, after "["
ParseElems(ts, i, acc) ==
    LET r == ParseValue(ts, i) IN
    IF ~r.ok \/ r.next > Len(ts) THEN ParseFail
    ELSE IF ts[r.next] = P(",")
         THEN ParseElems(ts, r.next + 1, Append(acc, r.val))
    ELSE IF ts[r.next] = P("]")
         THEN ParseOk(ArrV(Append(acc, r.val)), r.next + 1)
    ELSE ParseFail

\* the members of a non-empty object, after "{"
ParseMembers(ts, i, acc) ==
    IF i + 1 > Len(ts) \/ ts[i].k # "str" \/ ts[i + 1] # P(":") THEN ParseFail
    ELSE LET r == ParseValue(ts, i + 2) IN
         IF ~r.ok \/ r.next > Len(ts) THEN ParseFail
         ELSE IF ts[r.next] = P(",")
              THEN ParseMembers(ts, r.next + 1, MapInsert(acc, ts[i].v, r.val))
         ELSE IF ts[r.next] = P("}")
              THEN ParseOk(ObjV(MapInsert(acc, ts[i].v, r.val)), r.next + 1)
         ELSE ParseFail

\* serde_json::from_slice::<Value>: one value, then end of input
FromSlice(ts) ==
    LET r == ParseValue(ts, 1) IN
    IF r.ok /\ r.next = Len(ts) + 1 THEN r ELSE ParseFail

\* does a Value deserialize into a field of the given Rust type
HasType(v, ty) ==
    CASE ty = "String" -> v.t = "str"
      [] ty = "bool" -> v.t = "bool"
      [] ty = "Vec<String>" ->
            v.t = "arr" /\ \A i \in DOMAIN v.items : v.items[i].t = "str"
      [] ty = "Value" -> TRUE
      [] OTHER -> FALSE

\* a struct's non-Option fields are all there, each of its type
HasFields(v, fields) ==
    /\ v.t = "obj"
    /\ \A key \in DOMAIN fields :
          key \in DOMAIN v.m /\ HasType(v.m[key], fields[key])

\* github.rs User: the fields that are not Option
UserFields ==
    [key \in {"date", "name", "username"} |-> "String"]

IsUser(v) == HasFields(v, UserFields)

\* github.rs Commits: the fields that are neither Option nor a User
CommitsFields ==
    [key \in {"added", "distinct", "id", "message", "timestamp", "tree_id",
              "url"} |->
        CASE key = "added" -> "Vec<String>"
          [] key = "distinct" -> "bool"
          [] OTHER -> "String"]

IsCommits(v) ==
    /\ HasFields(v, CommitsFields)
    /\ \A key \in {"author", "committer"} :
          key \in DOMAIN v.m /\ IsUser(v.m[key])

\* github.rs PushEvent: the scalar fields that are not Option
PushEventFields ==
    [key \in {"after", "before", "compare", "created", "deleted", "forced",
              "ref", "repository"} |->
        CASE key \in {"created", "deleted", "forced"} -> "bool"
          [] key = "repository" -> "Value"
          [] OTHER -> "String"]

\* a JSON object that deserializes into a PushEvent
IsPushEvent(v) ==
    /\ HasFields(v, PushEventFields)
    /\ "commits" \in DOMAIN v.m
    /\ v.m["commits"].t = "arr"
    /\ \A i \in DOMAIN v.m["commits"].items : IsCommits(v.m["commits"].items[i])
    /\ "head_commit" \in DOMAIN v.m /\ IsCommits(v.m["head_commit"])
    /\ "pusher" \in DOMAIN v.m /\ IsUser(v.m["pusher"])

\* the object keys the model uses, in the byte order a BTreeMap iterates them
KeyOrder ==
    << "added", "after", "author", "before", "commits", "committer", "compare",
       "created", "date", "deleted", "distinct", "email", "error", "event",
       "forced", "head_commit", "id", "message", "name", "pusher", "ref",
       "repository", "status", "timestamp", "tree_id", "url", "username",
       "zen" >>

\* the keys of m in iteration order
SortedKeys(m) == SelectSeq(KeyOrder, LAMBDA key : key \in DOMAIN m)

Scalar(v) ==
    CASE v.t = "null" -> L("null")
      [] v.t = "bool" -> L(v.s)
      [] v.t = "num" -> N(v.s)
      [] OTHER -> S(v.s)

RECURSIVE Compact(_)
RECURSIVE CompactElems(_, _)
RECURSIVE CompactMembers(_, _, _)

\* serde_json::to_vec: the compact serialization
Compact(v) ==
    CASE v.t = "arr" -> <<P("[")>> \o CompactElems(v.items, 1) \o <<P("]")>>
      [] v.t = "obj" ->
            <<P("{")>> \o CompactMembers(v.m, SortedKeys(v.m), 1) \o <<P("}")>>
      [] OTHER -> <<Scalar(v)>>

CompactElems(items, i) ==
    IF i > Len(items) THEN <<>>
    ELSE (IF i > 1 THEN <<P(",")>> ELSE <<>>)
         \o Compact(items[i]) \o CompactElems(items, i + 1)

CompactMembers(m, keys, i) ==
    IF i > Len(keys) THEN <<>>
    ELSE (IF i > 1 THEN <<P(",")>> ELSE <<>>)
         \o <<S(keys[i]), P(":")>> \o Compact(m[keys[i]])
         \o CompactMembers(m, keys, i + 1)

RECURSIVE Pretty(_, _)
RECURSIVE PrettyElems(_, _, _)
RECURSIVE PrettyMembers(_, _, _, _)

\* serde_json::to_string_pretty at nesting depth d
Pretty(v, d) ==
    CASE v.t = "arr" ->
            IF v.items = <<>> THEN <<P("["), P("]")>>
            ELSE <<P("[")>> \o PrettyElems(v.items, 1, d + 1)
                 \o <<NL(d), P("]")>>
      [] v.t = "obj" ->
            IF DOMAIN v.m = {} THEN <<P("{"), P("}")>>
            ELSE <<P("{")>> \o PrettyMembers(v.m, SortedKeys(v.m), 1, d + 1)
                 \o <<NL(d), P("}")>>
      [] OTHER -> <<Scalar(v)>>

PrettyElems(items, i, d) ==
    IF i > Len(items) THEN <<>>
    ELSE (IF i > 1 THEN <<P(",")>> ELSE <<>>)
         \o <<NL(d)>> \o Pretty(items[i], d) \o PrettyElems(items, i + 1, d)

PrettyMembers(m, keys, i, d) ==
    IF i > Len(keys) THEN <<>>
    ELSE (IF i > 1 THEN <<P(",")>> ELSE <<>>)
         \o <<NL(d), S(keys[i]), P(":")>> \o Pretty(m[keys[i]], d)
         \o PrettyMembers(m, keys, i + 1, d)

ToStringPretty(v) == Pretty(v, 0)

(* ------------------------------ headers -------------------------------- *)

\* a header value as received; to_str() succeeds only on visible ASCII
Absent == [present |-> FALSE, ascii |-> TRUE, text |-> ""]
Txt(s) == [present |-> TRUE, ascii |-> TRUE, text |-> s]
Opaque(s) == [present |-> TRUE, ascii |-> FALSE, text |-> s]

HeaderNames ==
    { "X-GitHub-Hook-ID", "X-GitHub-Event", "X-GitHub-Delivery",
      "X-Hub-Signature", "X-Hub-Signature-256", "User-Agent",
      "X-GitHub-Hook-Installation-Target-Type",
      "X-GitHub-Hook-Installation-Target-ID" }

None == [some |-> FALSE, s |-> ""]
Some(s) == [some |-> TRUE, s |-> s]

\* a str_default that keeps the bytes of a value to_str() rejects
str_default_Lossy(head) == head.text

\* head.to_str().map(ToString::to_string).unwrap_or_default()
str_default(head) == IF head.ascii THEN head.text ELSE ""

\* e.to_str().map(ToString::to_string).ok()
to_string_opt(e) == IF e.ascii THEN Some(e.text) ELSE None

\* headers.get(name).map_or("".into(), str_default)
GetOrEmpty(headers, name) ==
    IF headers[name].present THEN str_default(headers[name]) ELSE ""

\* headers.get(name).and_then(to_string_opt)
GetOpt(headers, name) ==
    IF headers[name].present THEN to_string_opt(headers[name]) ELSE None

\* GithubHeader::from_request_parts
from_request_parts(headers) ==
    [ x_github_hook_id |-> GetOrEmpty(headers, "X-GitHub-Hook-ID"),
      x_github_event |-> GetOrEmpty(headers, "X-GitHub-Event"),
      x_github_delivery |-> GetOrEmpty(headers, "X-GitHub-Delivery"),
      x_hub_signature |-> GetOpt(headers, "X-Hub-Signature"),
      x_hub_signature_256 |-> GetOpt(headers, "X-Hub-Signature-256"),
      user_agent |-> GetOrEmpty(headers, "User-Agent"),
      x_github_hook_installation_target_type |->
          GetOrEmpty(headers, "X-GitHub-Hook-Installation-Target-Type"),
      x_github_hook_installation_target_id |->
          GetOrEmpty(headers, "X-GitHub-Hook-Installation-Target-ID") ]

\* the GithubHeader of a request without any of the headers
NoGh == from_request_parts([n \in HeaderNames |-> Absent])

(* ------------------------------ responses ------------------------------ *)

NoResp == [status |-> 0, body |-> <<>>]

\* Response::new(Either::Left(Full::default())): 200, empty body
EmptyOk == [status |-> 200, body |-> <<>>]

\* impl IntoResponse for Value: 200 with the compact serialization
ValueIntoResponse(v) == [status |-> 200, body |-> Compact(v)]

\* impl IntoResponse for Error: 500, empty body
ErrorIntoResponse == [status |-> 500, body |-> <<>>]

\* json!({ "status": "ok" })
StatusOkJson == ObjV([key \in {"status"} |-> StrV("ok")])

\* json!({ "error": "not supported", "event": x })
NotSupportedJson(x) ==
    ObjV([key \in {"error", "event"} |->
            IF key = "error" THEN StrV("not supported") ELSE StrV(x)])

\* the 501 response of the fallback arm of handle
NotImplemented(x) == [status |-> 501, body |-> Compact(NotSupportedJson(x))]

\* the 413 response of handle_push_event
PayloadTooLarge == [status |-> 413, body |-> <<>>]

\* an IsHealthPath with the second path spelled "/healthcheck"
IsHealthPath_Respelled(path) == path = "/status" \/ path = "/healthcheck"

\* path == "/status" || path == "/healthchekc"
IsHealthPath(path) == path = "/status" \/ path = "/healthchekc"

\* an UpperOrMax that takes a missing upper bound for 0
UpperOrMax_Zero(upper) == IF upper.some THEN upper.n ELSE ToU64(0)

\* req.body().size_hint().upper().unwrap_or(u64::MAX)
UpperOrMax(upper) == IF upper.some THEN upper.n ELSE U64Max

\* a TooLarge that compares with >= instead of >
TooLarge_Inclusive(upper) == ~U64Gt(BodyLimit, UpperOrMax(upper))

\* upper > 1024 * 64
TooLarge(upper) == U64Gt(UpperOrMax(upper), BodyLimit)

\* PushEvent::HEADER_EVENT
HEADER_EVENT == "push"

\* Result<Response, Error> of handle
NoResult == [kind |-> "none", resp |-> NoResp]
Ok(resp) == [kind |-> "ok", resp |-> resp]
Err == [kind |-> "err", resp |-> NoResp]

\* lines on the two output streams
HeaderLine(gh) == [k |-> "HEADER", gh |-> gh, text |-> <<>>]
PayloadLine(v) == [k |-> "payload", gh |-> NoGh, text |-> ToStringPretty(v)]
TcpErrorLine == [k |-> "TcpError", what |-> "accept"]
HyperErrorLine == [k |-> "HyperError", what |-> "connection"]
DisplayLine(what) == [k |-> "error", what |-> what]

(* ------------------------------ inputs --------------------------------- *)

RECURSIVE TokMembers(_, _)
TokMembers(ms, i) ==
    IF i > Len(ms) THEN <<>>
    ELSE (IF i > 1 THEN <<P(",")>> ELSE <<>>)
         \o <<S(ms[i][1]), P(":")>> \o ms[i][2] \o TokMembers(ms, i + 1)

\* the bytes of a JSON object with the given <<key, bytes>> members
TokObj(ms) == <<P("{")>> \o TokMembers(ms, 1) \o <<P("}")>>

\* the bytes of a github.rs User
UserBytes ==
    TokObj(<< <<"date", <<S("2024-01-01T00:00:00Z")>> >>,
              <<"email", <<L("null")>> >>,
              <<"name", <<S("octocat")>> >>,
              <<"username", <<S("octocat")>> >> >>)

\* the bytes of a github.rs Commits
CommitBytes ==
    TokObj(<< <<"added", <<P("["), S("README.md"), P("]")>> >>,
              <<"author", UserBytes>>,
              <<"committer", UserBytes>>,
              <<"distinct", <<L("true")>> >>,
              <<"id", <<S("abc123")>> >>,
              <<"message", <<S("init")>> >>,
              <<"timestamp", <<S("2024-01-01T00:00:00Z")>> >>,
              <<"tree_id", <<S("def456")>> >>,
              <<"url", <<S("https://example.test/c/abc123")>> >> >>)

\* the members of a push payload with every required field of PushEvent
PushMembers ==
    << <<"ref", <<S("refs/heads/main")>> >>,
       <<"before", <<S("000000")>> >>,
       <<"after", <<S("abc123")>> >>,
       <<"created", <<L("false")>> >>,
       <<"deleted", <<L("false")>> >>,
       <<"forced", <<L("false")>> >>,
       <<"compare", <<S("https://example.test/compare")>> >>,
       <<"commits", <<P("[")>> \o CommitBytes \o <<P("]")>> >>,
       <<"head_commit", CommitBytes>>,
       <<"pusher", UserBytes>>,
       <<"repository", TokObj(<< <<"id", <<N("1")>> >> >>)>> >>

\* a well-formed push payload
PushBody == TokObj(PushMembers)

\* the same payload without its "after" member
PushBodyNoAfter ==
    TokObj(SelectSeq(PushMembers, LAMBDA mem : mem[1] # "after"))

\* the same payload with "created" a string instead of a bool
PushBodyBadCreated ==
    TokObj([i \in DOMAIN PushMembers |->
              IF PushMembers[i][1] = "created"
              THEN <<"created", <<S("yes")>> >> ELSE PushMembers[i]])

\* the bodies the clients send
Bodies ==
    { <<>>,                                              \* no bytes at all
      <<Junk>>,                                          \* not JSON
      <<P("{"), S("ref")>>,                              \* truncated
      <<P("{"), P("}"), P("{"), P("}")>>,                \* trailing characters
      <<P("{"), P("}")>>,                                \* {}
      <<P("["), N("1"), P(","), L("true"), P("]")>>,     \* [1,true]
      TokObj(<< <<"zen", <<S("a")>> >>, <<"zen", <<S("b")>> >> >>),
      PushBody, PushBodyNoAfter, PushBodyBadCreated }

\* the size hints a request body advertises: None for a chunked body
NoUpper == [some |-> FALSE, n |-> ToU64(0)]
Upper(n) == [some |-> TRUE, n |-> n]

Uppers ==
    { NoUpper, Upper(ToU64(2)), Upper(ToU64(65536)), Upper(ToU64(65537)),
      Upper(U64Max) }

\* a header map with only the event header, and one as GitHub sends it
Bare(ev) == [n \in HeaderNames |-> IF n = "X-GitHub-Event" THEN ev ELSE Absent]
Full(ev, sig) ==
    [n \in HeaderNames |->
        CASE n = "X-GitHub-Event" -> ev
          [] n = "X-Hub-Signature-256" -> sig
          [] n = "X-Hub-Signature" -> Absent
          [] n = "User-Agent" -> Txt("GitHub-Hookshot/1")
          [] OTHER -> Txt("1")]

EventValues ==
    { Absent, Txt(""), Txt("ping"), Txt("push"), Txt("issues"), Txt("PUSH"),
      Opaque("push\\xE9") }

HeaderMaps ==
    { Bare(ev) : ev \in EventValues }
    \cup { Full(Txt("push"), Txt("sha256=00")), Full(Txt("ping"), Opaque("\\xFF")) }

Paths == { "/status", "/healthchekc", "/", "/healthcheck" }

Methods == { "GET", "POST" }

\* request heads: everything of a request but the bytes of its body.
\* Every header map and size hint on "/"; on the other paths the heads that
\* would be a ping, a push that passes the guard and a push that does not.
Heads ==
    [path : {"/"}, method : Methods, headers : HeaderMaps, upper : Uppers]
    \cup [path : Paths, method : Methods,
          headers : {Bare(Absent), Bare(Txt("ping")), Bare(Txt("push"))},
          upper : {NoUpper, Upper(ToU64(2))}]

\* the few heads and bodies the concurrent specification draws from
FewHeads ==
    { [path |-> "/status", method |-> "GET", headers |-> Bare(Absent),
       upper |-> Upper(ToU64(2))],
      [path |-> "/", method |-> "POST", headers |-> Bare(Txt("ping")),
       upper |-> Upper(ToU64(2))],
      [path |-> "/", method |-> "POST", headers |-> Bare(Txt("push")),
       upper |-> Upper(ToU64(2))],
      [path |-> "/", method |-> "POST", headers |-> Bare(Txt("issues")),
       upper |-> Upper(ToU64(2))] }

FewBodies == { <<Junk>>, <<P("{"), P("}")>> }

\* what the clients of an environment send
HeadsOf(e) == IF e.all THEN Heads ELSE FewHeads
BodiesOf(e) == IF e.all THEN Bodies ELSE FewBodies

NoHead ==
    [path |-> "", method |-> "", headers |-> Bare(Absent), upper |-> NoUpper]

(* ------------------------------ state ---------------------------------- *)

VARIABLES
    env,      \* the clients: the connections they open, what they send
    listener, \* the accept loop: accept() calls that returned Err, and
              \* whether one returned Ok after that
    conn,     \* per connection: "none" (pending), "open" or "ended"
    task,     \* per connection: the request in flight and where handle stands
    stdout,   \* per writer, the lines it printed with println!, in order
    stderr    \* per writer, the lines it printed with eprintln!, in order

vars == <<env, listener, conn, task, stdout, stderr>>

ConnIds == 1 .. MaxConns

\* who writes to the process's output streams: main's accept loop and the
\* task of each connection.  Lines of different writers interleave in any
\* order on the stream itself; the model keeps each writer's own order.
Main == 0
Writers == {Main} \cup ConnIds

\* a task with no request in flight
IdleTask(served) ==
    [ pc |-> "idle",        \* where handle stands
      req |-> NoHead,       \* the request's head
      gh |-> NoGh,          \* gh_header
      io |-> "none",        \* how collect() resolved: "none", "ok" or "err"
      buf |-> <<>>,         \* body
      val |-> NullV,        \* push_event
      result |-> NoResult,  \* what handle returned
      svc |-> "none",       \* what Handler::call returned to hyper
      sent |-> <<>>,        \* the responses given for this request
      trace |-> <<>>,       \* the stages this request has been through
      mark |-> 0,           \* length of the task's stdout when it arrived
      emark |-> 0,          \* length of the task's stderr when it arrived
      served |-> served ]   \* requests answered on this connection

InitWith(conns, all, reqs) ==
    /\ env = [conns |-> conns, all |-> all, reqs |-> reqs]
    /\ listener = [fails |-> 0, recovered |-> FALSE]
    /\ conn = [c \in ConnIds |-> "none"]
    /\ task = [c \in ConnIds |-> IdleTask(0)]
    /\ stdout = [w \in Writers |-> <<>>]
    /\ stderr = [w \in Writers |-> <<>>]

\* one client connection, every kind of request
Init == InitWith({1}, TRUE, MaxReqs)

\* several client connections, one request each, a few kinds of request
InitConc == InitWith(ConnIds, FALSE, 1)

(* ------------------------------ the accept loop ------------------------ *)

\* the connection accept() answers next: the oldest one still pending
Pending(c) ==
    /\ c \in env.conns
    /\ conn[c] = "none"
    /\ \A d \in env.conns : d < c => conn[d] # "none"

\* main.rs:29-43, Ok arm: the connection gets a task of its own
Accept(c) ==
    /\ Pending(c)
    /\ conn' = [conn EXCEPT ![c] = "open"]
    /\ listener' = [listener EXCEPT !.recovered = @ \/ listener.fails > 0]
    /\ UNCHANGED <<env, task, stdout, stderr>>

\* main.rs:31-34, Err arm: accept() fails; the loop logs it and goes round
\* again, the connection still pending
AcceptFail(c) ==
    /\ Pending(c)
    /\ listener.fails < MaxAcceptFails
    /\ listener' = [listener EXCEPT !.fails = @ + 1]
    /\ stderr' = [stderr EXCEPT ![Main] = Append(@, TcpErrorLine)]
    /\ UNCHANGED <<env, conn, task, stdout>>

\* a ConnFail that takes every open connection down with the failed one
ConnFail_All(c) ==
    /\ conn[c] = "open"
    /\ conn' = [d \in ConnIds |-> IF conn[d] = "open" THEN "ended" ELSE conn[d]]
    /\ task' = [d \in ConnIds |->
                  IF conn[d] = "open"
                  THEN [IdleTask(task[d].served) EXCEPT !.pc = "dropped"]
                  ELSE task[d]]
    /\ stderr' = [stderr EXCEPT ![c] = Append(@, HyperErrorLine)]
    /\ UNCHANGED <<env, listener, stdout>>

\* main.rs:37-42: serve_connection returns Err; the task logs it and ends,
\* dropping whatever request it was handling
ConnFail(c) ==
    /\ conn[c] = "open"
    /\ conn' = [conn EXCEPT ![c] = "ended"]
    /\ task' = [task EXCEPT ![c] = [IdleTask(@.served) EXCEPT !.pc = "dropped"]]
    /\ stderr' = [stderr EXCEPT ![c] = Append(@, HyperErrorLine)]
    /\ UNCHANGED <<env, listener, stdout>>

\* main.rs:37-42: serve_connection returns Ok once the client has closed
ConnClose(c) ==
    /\ conn[c] = "open"
    /\ task[c].pc = "idle"
    /\ conn' = [conn EXCEPT ![c] = "ended"]
    /\ UNCHANGED <<env, listener, task, stdout, stderr>>

(* ------------------------------ one request ---------------------------- *)

\* A frame is what one poll of a connection's task works on: the task and
\* what it has written to the two output streams.  Each step below is one stretch of handle or of
\* handle_push_event; a poll runs the steps until the task has to wait.
Frame(c) == [t |-> task[c], out |-> stdout[c], err |-> stderr[c]]

Stage(t, name) == Append(t.trace, name)

\* handle, main.rs:107-112
HealthCheck(f) ==
    IF IsHealthPath(f.t.req.path)
    THEN [f EXCEPT !.t.pc = "result",
                   !.t.result = Ok(ValueIntoResponse(StatusOkJson)),
                   !.t.trace = Stage(f.t, "HealthCheck")]
    ELSE [f EXCEPT !.t.pc = "headers"]

\* handle, main.rs:114-115
ExtractHeaders(f) ==
    LET gh == from_request_parts(f.t.req.headers) IN
    [f EXCEPT !.t.pc = "dispatch", !.t.gh = gh,
              !.t.trace = Stage(f.t, "Headers"),
              !.out = Append(@, HeaderLine(gh))]

\* a Dispatch without the "ping" arm: a ping goes down the fallback arm
Dispatch_NoPing(f) ==
    LET x == f.t.gh.x_github_event IN
    IF x = HEADER_EVENT
    THEN [f EXCEPT !.t.pc = "push"]
    ELSE [f EXCEPT !.t.pc = "result", !.t.result = Ok(NotImplemented(x)),
                   !.t.trace = Stage(f.t, "Unsupported")]

\* handle, main.rs:117-131
Dispatch(f) ==
    LET x == f.t.gh.x_github_event IN
    CASE x = "ping" ->
           [f EXCEPT !.t.pc = "result", !.t.result = Ok(EmptyOk),
                     !.t.trace = Stage(f.t, "Ping")]
      [] x = HEADER_EVENT ->
           [f EXCEPT !.t.pc = "push"]
      [] OTHER ->
           [f EXCEPT !.t.pc = "result", !.t.result = Ok(NotImplemented(x)),
                     !.t.trace = Stage(f.t, "Unsupported")]

\* handle_push_event, main.rs:136-143
SizeCheck(f) ==
    IF TooLarge(f.t.req.upper)
    THEN [f EXCEPT !.t.pc = "result", !.t.result = Ok(PayloadTooLarge),
                   !.t.trace = Stage(f.t, "SizeCheck")]
    ELSE [f EXCEPT !.t.pc = "collect", !.t.trace = Stage(f.t, "SizeCheck")]

\* handle_push_event, main.rs:146: collect() has resolved, with the body's
\* bytes or with an error that `?` converts with From (155-160)
Collected(f, io) ==
    IF io.ok
    THEN [f EXCEPT !.t.pc = "parse", !.t.io = "ok", !.t.buf = io.bytes,
                   !.t.trace = Stage(f.t, "BodyRead")]
    ELSE [f EXCEPT !.t.pc = "result", !.t.io = "err", !.t.result = Err,
                   !.t.trace = Stage(f.t, "BodyRead"),
                   !.err = Append(@, DisplayLine("hyper::Error"))]

\* a Parse that takes a body it cannot parse for null instead of failing
Parse_Lenient(f) ==
    [f EXCEPT !.t.pc = "log", !.t.val = FromSlice(f.t.buf).val,
              !.t.trace = Stage(f.t, "Parse")]

\* handle_push_event, main.rs:148
Parse(f) ==
    LET r == FromSlice(f.t.buf) IN
    IF r.ok
    THEN [f EXCEPT !.t.pc = "log", !.t.val = r.val,
                   !.t.trace = Stage(f.t, "Parse")]
    ELSE [f EXCEPT !.t.pc = "result", !.t.result = Err,
                   !.t.trace = Stage(f.t, "Parse"),
                   !.err = Append(@, DisplayLine("serde_json::Error"))]

\* a Log without its println!
Log_NoPrint(f) ==
    [f EXCEPT !.t.pc = "result", !.t.result = Ok(EmptyOk),
              !.t.trace = Stage(f.t, "Log")]

\* handle_push_event, main.rs:150-152
Log(f) ==
    [f EXCEPT !.t.pc = "result", !.t.result = Ok(EmptyOk),
              !.t.trace = Stage(f.t, "Log"),
              !.out = Append(@, PayloadLine(f.t.val))]

\* a StepOf that logs the payload before parsing it
StepOf_LogFirst(f) ==
    CASE f.t.pc = "handle" -> HealthCheck(f)
      [] f.t.pc = "headers" -> ExtractHeaders(f)
      [] f.t.pc = "dispatch" -> Dispatch(f)
      [] f.t.pc = "push" -> SizeCheck(f)
      [] f.t.pc = "parse" ->
           [f EXCEPT !.t.pc = "log", !.t.trace = Stage(f.t, "Log"),
                     !.out = Append(@, PayloadLine(f.t.val))]
      [] f.t.pc = "log" ->
           LET r == FromSlice(f.t.buf) IN
           IF r.ok
           THEN [f EXCEPT !.t.pc = "result", !.t.val = r.val,
                          !.t.result = Ok(EmptyOk),
                          !.t.trace = Stage(f.t, "Parse")]
           ELSE [f EXCEPT !.t.pc = "result", !.t.result = Err,
                          !.t.trace = Stage(f.t, "Parse"),
                          !.err = Append(@, DisplayLine("serde_json::Error"))]

\* the step the task is at
StepOf(f) ==
    CASE f.t.pc = "handle" -> HealthCheck(f)
      [] f.t.pc = "headers" -> ExtractHeaders(f)
      [] f.t.pc = "dispatch" -> Dispatch(f)
      [] f.t.pc = "push" -> SizeCheck(f)
      [] f.t.pc = "parse" -> Parse(f)
      [] f.t.pc = "log" -> Log(f)

\* where a poll stops: at collect().await, or with handle's result
Waits(f) == f.t.pc \in {"collect", "result"}

RECURSIVE Run(_)
Run(f) == IF Waits(f) THEN f ELSE Run(StepOf(f))

Commit(c, f) ==
    /\ task' = [task EXCEPT ![c] = f.t]
    /\ stdout' = [stdout EXCEPT ![c] = f.out]
    /\ stderr' = [stderr EXCEPT ![c] = f.err]

At(c, pc) == conn[c] = "open" /\ task[c].pc = pc

\* hyper has read a request head and calls Handler::call, main.rs:73-75
Receive(c, h) ==
    /\ At(c, "idle")
    /\ task[c].served < env.reqs
    /\ h \in HeadsOf(env)
    /\ task' = [task EXCEPT ![c] =
                  [IdleTask(@.served) EXCEPT
                     !.pc = "handle", !.req = h, !.trace = <<"Received">>,
                     !.mark = Len(stdout[c]), !.emark = Len(stderr[c])]]
    /\ UNCHANGED <<env, listener, conn, stdout, stderr>>

\* first poll of the future: handle runs up to its result or to
\* collect().await, main.rs:106-143
Handle(c) ==
    /\ At(c, "handle")
    /\ Commit(c, Run(Frame(c)))
    /\ UNCHANGED <<env, listener, conn>>

\* the body has arrived: handle_push_event runs on to its result,
\* main.rs:146-152
CollectOk(c, bytes) ==
    /\ At(c, "collect")
    /\ bytes \in BodiesOf(env)
    /\ Commit(c, Run(Collected(Frame(c), [ok |-> TRUE, bytes |-> bytes])))
    /\ UNCHANGED <<env, listener, conn>>

\* reading the body has failed, main.rs:146
CollectErr(c) ==
    /\ At(c, "collect")
    /\ Commit(c, Run(Collected(Frame(c), [ok |-> FALSE, bytes |-> <<>>])))
    /\ UNCHANGED <<env, listener, conn>>

\* the response Handler::call makes of handle's result, main.rs:76-79
CallResponse(result) ==
    IF result.kind = "ok" THEN result.resp ELSE ErrorIntoResponse

\* Handler::call, main.rs:76-79: always Ok(response) to hyper, which sends it
Call(c) ==
    /\ At(c, "result")
    /\ task' = [task EXCEPT ![c] =
                  [@ EXCEPT !.pc = "responded", !.svc = "Ok",
                            !.sent = Append(@, CallResponse(task[c].result)),
                            !.trace = Stage(task[c], "Responded")]]
    /\ UNCHANGED <<env, listener, conn, stdout, stderr>>

\* hyper has written the response; the connection waits for the next request
Finish(c) ==
    /\ At(c, "responded")
    /\ task' = [task EXCEPT ![c] = IdleTask(@.served + 1)]
    /\ UNCHANGED <<env, listener, conn, stdout, stderr>>

Next ==
    \/ \E c \in ConnIds : AcceptFail(c)
    \/ \E c \in ConnIds : Accept(c)
    \/ \E c \in ConnIds : ConnFail(c)
    \/ \E c \in ConnIds : ConnClose(c)
    \/ \E c \in ConnIds : \E h \in HeadsOf(env) : Receive(c, h)
    \/ \E c \in ConnIds : Handle(c)
    \/ \E c \in ConnIds : \E bytes \in BodiesOf(env) : CollectOk(c, bytes)
    \/ \E c \in ConnIds : CollectErr(c)
    \/ \E c \in ConnIds : Call(c)
    \/ \E c \in ConnIds : Finish(c)

\* one connection, every kind of request
Spec == Init /\ [][Next]_vars

\* several connections at once, one request each, a few kinds of request
SpecConc == InitConc /\ [][Next]_vars

(* ------------------------------ properties ----------------------------- *)

\* the request of connection c has been answered
Answered(c) == task[c].pc = "responded"

\* connection c has a request in flight
InFlight(c) == task[c].pc \notin {"idle", "dropped"}

\* the lines the task of c has printed since the request in flight arrived
OutSince(c) ==
    IF InFlight(c) THEN SubSeq(stdout[c], task[c].mark + 1, Len(stdout[c]))
    ELSE <<>>
ErrSince(c) ==
    IF InFlight(c) THEN SubSeq(stderr[c], task[c].emark + 1, Len(stderr[c]))
    ELSE <<>>

PayloadLines(c) == SelectSeq(OutSince(c), LAMBDA line : line.k = "payload")

\* the X-GitHub-Event header of the request, as received
EventHeader(c) == task[c].req.headers["X-GitHub-Event"]

OnHealthPath(c) == task[c].req.path \in {"/status", "/healthchekc"}

\* a request off the health-check paths whose event header reads `name`
IsEvent(c, name) == ~OnHealthPath(c) /\ EventHeader(c) = Txt(name)

\* the bytes {"status":"ok"}
StatusOkBytes == <<P("{"), S("status"), P(":"), S("ok"), P("}")>>

\* the bytes {"error":"not supported","event":x}
NotSupportedBytes(x) ==
    << P("{"), S("error"), P(":"), S("not supported"), P(","),
       S("event"), P(":"), S(x), P("}") >>

\* nothing of the body has been read or parsed
BodyUntouched(c) ==
    /\ task[c].io = "none" /\ task[c].buf = <<>> /\ task[c].val = NullV
    /\ \A i \in DOMAIN task[c].trace : task[c].trace[i] \notin {"BodyRead", "Parse", "Log"}

\* C1: a request to /status or /healthchekc is answered 200 with body
\* {"status":"ok"} whatever its method, event header and advertised length,
\* and no header is extracted, no size checked, no body read or parsed.
C1_HealthCheck ==
    \A c \in ConnIds :
        Answered(c) /\ OnHealthPath(c) =>
            /\ task[c].sent = << [status |-> 200, body |-> StatusOkBytes] >>
            /\ task[c].trace = <<"Received", "HealthCheck", "Responded">>
            /\ task[c].gh = NoGh
            /\ OutSince(c) = <<>>
            /\ BodyUntouched(c)

\* C1 witness: GET /healthchekc carrying a push event header and a body
\* of unknown length has been answered.
C1_Witness ==
    \E c \in ConnIds :
        /\ Answered(c)
        /\ task[c].req.path = "/healthchekc"
        /\ task[c].req.method = "GET"
        /\ EventHeader(c) = Txt("push")
        /\ ~task[c].req.upper.some
        /\ task[c].sent[1].status = 200

\* the event header as bytes: the empty string when the header is missing
RawEvent(c) == IF EventHeader(c).present THEN EventHeader(c).text ELSE ""

\* the event header as text: the empty string when the header is missing
\* or is not visible ASCII
DecodedEvent(c) ==
    IF EventHeader(c).present /\ EventHeader(c).ascii
    THEN EventHeader(c).text ELSE ""

Unsupported(c, x) ==
    /\ task[c].sent = << [status |-> 501, body |-> NotSupportedBytes(x)] >>
    /\ BodyUntouched(c)

\* C2 as claimed: an event header value X other than "ping" and "push"
\* (missing: "") is answered 501 with {"error":"not supported","event":X},
\* carrying exactly X, the body unread.
C2_AsClaimed ==
    \A c \in ConnIds :
        Answered(c) /\ ~OnHealthPath(c) /\ RawEvent(c) \notin {"ping", "push"} =>
            Unsupported(c, RawEvent(c))

\* C2 amended: the body carries the header's text when that is visible
\* ASCII and the empty string when the header is missing or is not; the
\* answer is 501 and the body unread whenever that text is neither "ping"
\* nor "push".
C2_Unsupported ==
    \A c \in ConnIds :
        Answered(c) /\ ~OnHealthPath(c) /\ DecodedEvent(c) \notin {"ping", "push"} =>
            Unsupported(c, DecodedEvent(c))

\* C2 witness: a request whose event header is not visible ASCII has been
\* answered 501 with an empty event name.
C2_Witness ==
    \E c \in ConnIds :
        /\ Answered(c) /\ ~OnHealthPath(c)
        /\ EventHeader(c).present /\ ~EventHeader(c).ascii
        /\ task[c].sent = << [status |-> 501, body |-> NotSupportedBytes("")] >>

\* C3: a "ping" off the health-check paths is answered 200 with an empty
\* body, and its body is never read or parsed, whatever its advertised length.
C3_Ping ==
    \A c \in ConnIds :
        Answered(c) /\ IsEvent(c, "ping") =>
            /\ task[c].sent = << [status |-> 200, body |-> <<>>] >>
            /\ task[c].trace = <<"Received", "Headers", "Ping", "Responded">>
            /\ BodyUntouched(c)

\* C3 witness: a ping advertising a body of u64::MAX bytes has been answered.
C3_Witness ==
    \E c \in ConnIds :
        /\ Answered(c) /\ IsEvent(c, "ping")
        /\ task[c].req.upper = Upper(U64Max)
        /\ task[c].sent[1].status = 200

\* L > 65536, spelled out on the limbs
Over64K(n) == n[1] > 0 \/ n[2] > 0 \/ n[3] > 1 \/ (n[3] = 1 /\ n[4] > 0)

Is413(c) == task[c].sent = << [status |-> 413, body |-> <<>>] >>

\* C4 as claimed: a push advertising an upper bound L is answered 413 with
\* an empty body iff L > 65536, and then the body is not consumed and
\* nothing is parsed or written to standard output.
C4_AsClaimed ==
    \A c \in ConnIds :
        Answered(c) /\ IsEvent(c, "push") /\ task[c].req.upper.some =>
            /\ Is413(c) <=> Over64K(task[c].req.upper.n)
            /\ Is413(c) => BodyUntouched(c) /\ OutSince(c) = <<>>

\* C4 amended: ... and then the body is not consumed, nothing is parsed and
\* no payload is written to standard output; the one line on standard
\* output is the HEADER line handle prints before it dispatches.
C4_SizeGuard ==
    \A c \in ConnIds :
        Answered(c) /\ IsEvent(c, "push") /\ task[c].req.upper.some =>
            /\ Is413(c) <=> Over64K(task[c].req.upper.n)
            /\ Is413(c) =>
                  /\ BodyUntouched(c)
                  /\ OutSince(c) = << HeaderLine(task[c].gh) >>
                  /\ task[c].gh.x_github_event = "push"

\* C4 witness: a push advertising exactly 65536 bytes has passed the guard
\* and been answered.
C4_Witness ==
    \E c \in ConnIds :
        /\ Answered(c) /\ IsEvent(c, "push")
        /\ task[c].req.upper = Upper(ToU64(65536))
        /\ ~Is413(c)
        /\ task[c].io # "none"

\* C5 as claimed: a push advertising no upper bound is not rejected by the
\* size guard: its body is collected, and the answer is 200 or 500.
C5_AsClaimed ==
    \A c \in ConnIds :
        Answered(c) /\ IsEvent(c, "push") /\ ~task[c].req.upper.some =>
            /\ task[c].io # "none"
            /\ task[c].sent[1].status \in {200, 500}

\* C5 amended: a push advertising no upper bound is taken to advertise
\* u64::MAX bytes: it is answered 413 with an empty body, its body unread.
C5_NoUpperBound ==
    \A c \in ConnIds :
        Answered(c) /\ IsEvent(c, "push") /\ ~task[c].req.upper.some =>
            /\ Is413(c)
            /\ task[c].trace = <<"Received", "Headers", "SizeCheck", "Responded">>
            /\ BodyUntouched(c)

\* C5 witness: a push with no advertised upper bound has been answered.
C5_Witness ==
    \E c \in ConnIds :
        /\ Answered(c) /\ IsEvent(c, "push")
        /\ ~task[c].req.upper.some
        /\ task[c].sent[1].status = 413

\* a push whose advertised length lets it past the size guard
PushPastGuard(c) ==
    /\ IsEvent(c, "push")
    /\ task[c].req.upper.some /\ ~Over64K(task[c].req.upper.n)

\* the bodies of the clients that are not one JSON value
InvalidJson ==
    { <<>>, <<Junk>>, <<P("{"), S("ref")>>, <<P("{"), P("}"), P("{"), P("}")>> }

\* collecting the body failed, or it gave bytes that are not JSON
ReadFailed(c) == task[c].io = "err"
NotJson(c) == task[c].io = "ok" /\ task[c].buf \in InvalidJson

\* the line about the underlying error, and nothing else, on stderr
ErrorLogged(c) ==
    ErrSince(c) = << DisplayLine(IF ReadFailed(c) THEN "hyper::Error"
                                 ELSE "serde_json::Error") >>

Is500(c) == task[c].sent = << [status |-> 500, body |-> <<>>] >>

\* C6: when collecting the body of a push past the size guard fails, or the
\* body is not valid JSON, the error is on the error stream before any
\* response exists, the response is 500 with an empty body, no payload is on
\* standard output, and Handler::call completes with Ok(response).
C6_InternalError ==
    \A c \in ConnIds :
        PushPastGuard(c) /\ (ReadFailed(c) \/ NotJson(c)) =>
            /\ task[c].pc \in {"result", "responded"}
            /\ ErrorLogged(c)
            /\ PayloadLines(c) = <<>>
            /\ task[c].pc = "result" =>
                  task[c].result = Err /\ task[c].sent = <<>> /\ task[c].svc = "none"
            /\ task[c].pc = "responded" => Is500(c) /\ task[c].svc = "Ok"

\* C6 witness: a push whose body stops in the middle of an object has been
\* answered.
C6_Witness ==
    \E c \in ConnIds :
        /\ Answered(c) /\ PushPastGuard(c)
        /\ task[c].buf = <<P("{"), S("ref")>>
        /\ task[c].sent[1].status = 500
        /\ Len(ErrSince(c)) = 1

\* C7: a push whose body is a JSON object that lacks a required PushEvent
\* field, or has one of the wrong type, is answered 500 with an empty body
\* and no payload is logged.
C7_RequiredFields ==
    \A c \in ConnIds :
        /\ Answered(c) /\ PushPastGuard(c) /\ task[c].io = "ok"
        /\ FromSlice(task[c].buf).ok
        /\ FromSlice(task[c].buf).val.t = "obj"
        /\ ~IsPushEvent(FromSlice(task[c].buf).val)
        => Is500(c) /\ PayloadLines(c) = <<>>

\* a rendering without its line breaks and indentation
StripNL(text) == SelectSeq(text, LAMBDA tk : tk.k # "nl")

\* C8: a push with a well-formed payload, past the size guard and read
\* without error, is answered 200 with an empty body, and exactly one
\* rendering of the payload is on standard output: it is broken into lines
\* and reads back as the value the body reads as.
C8_PushLogged ==
    \A c \in ConnIds :
        /\ Answered(c) /\ PushPastGuard(c) /\ task[c].io = "ok"
        /\ FromSlice(task[c].buf).ok
        /\ IsPushEvent(FromSlice(task[c].buf).val)
        => /\ task[c].sent = << [status |-> 200, body |-> <<>>] >>
           /\ Len(PayloadLines(c)) = 1
           /\ \E i \in DOMAIN PayloadLines(c)[1].text :
                 PayloadLines(c)[1].text[i].k = "nl"
           /\ FromSlice(StripNL(PayloadLines(c)[1].text)) = FromSlice(task[c].buf)
           /\ ErrSince(c) = <<>>

\* C8 witness: the well-formed push payload has been answered 200.
C8_Witness ==
    \E c \in ConnIds :
        /\ Answered(c) /\ PushPastGuard(c)
        /\ task[c].buf = PushBody
        /\ task[c].sent[1].status = 200
        /\ Len(PayloadLines(c)) = 1

\* the paths of a request, as the stages it goes through
AllowedTraces ==
    { <<"Received", "HealthCheck", "Responded">>,
      <<"Received", "Headers", "Ping", "Responded">>,
      <<"Received", "Headers", "Unsupported", "Responded">>,
      <<"Received", "Headers", "SizeCheck", "Responded">>,
      <<"Received", "Headers", "SizeCheck", "BodyRead", "Responded">>,
      <<"Received", "Headers", "SizeCheck", "BodyRead", "Parse", "Responded">>,
      <<"Received", "Headers", "SizeCheck", "BodyRead", "Parse", "Log",
        "Responded">> }

IsPrefix(p, q) == Len(p) <= Len(q) /\ SubSeq(q, 1, Len(p)) = p

Through(c, stage) == \E i \in DOMAIN task[c].trace : task[c].trace[i] = stage

\* C9: a request takes exactly one of the paths HealthCheck, Ping, Push and
\* Unsupported and gets exactly one response; on the Push path the stages
\* come in the order SizeCheck, BodyRead, Parse, Log, each only after the
\* earlier ones succeeded, and the payload is logged only after a successful
\* parse and before the response.
C9_OnePathOneResponse ==
    \A c \in ConnIds :
        /\ \E full \in AllowedTraces : IsPrefix(task[c].trace, full)
        /\ Answered(c) => task[c].trace \in AllowedTraces
        /\ Len(task[c].sent) = (IF Answered(c) THEN 1 ELSE 0)
        /\ Through(c, "HealthCheck") => OnHealthPath(c)
        /\ Through(c, "Ping") => IsEvent(c, "ping")
        /\ Through(c, "SizeCheck") => IsEvent(c, "push")
        /\ Through(c, "Unsupported") =>
              ~OnHealthPath(c) /\ DecodedEvent(c) \notin {"ping", "push"}
        /\ Through(c, "BodyRead") => PushPastGuard(c) /\ task[c].io # "none"
        /\ Through(c, "Parse") => task[c].io = "ok"
        /\ Through(c, "Log") => FromSlice(task[c].buf).ok
        /\ Len(PayloadLines(c)) = (IF Through(c, "Log") THEN 1 ELSE 0)

\* C9 witness: a push has gone through every stage and been answered.
C9_Witness ==
    \E c \in ConnIds :
        /\ Answered(c)
        /\ task[c].trace = <<"Received", "Headers", "SizeCheck", "BodyRead",
                             "Parse", "Log", "Responded">>
        /\ task[c].sent = << [status |-> 200, body |-> <<>>] >>

\* the response of §6 of the specification to the request of c, from the
\* request and the bytes of its body alone
Isolated(c) ==
    CASE OnHealthPath(c) -> [status |-> 200, body |-> StatusOkBytes]
      [] ~OnHealthPath(c) /\ DecodedEvent(c) = "ping" ->
            [status |-> 200, body |-> <<>>]
      [] ~OnHealthPath(c) /\ DecodedEvent(c) = "push" ->
            IF ~PushPastGuard(c) THEN [status |-> 413, body |-> <<>>]
            ELSE IF ReadFailed(c) \/ NotJson(c) THEN [status |-> 500, body |-> <<>>]
            ELSE [status |-> 200, body |-> <<>>]
      [] OTHER -> [status |-> 501, body |-> NotSupportedBytes(DecodedEvent(c))]

\* what belongs to connection c
Local(c) == <<conn[c], task[c], stdout[c], stderr[c]>>

\* a step touches one connection at most
OneAtATime ==
    \A c, d \in ConnIds : c # d => Local(c)' = Local(c) \/ Local(d)' = Local(d)

\* a connection that fails is logged and ends; the others stay as they are
FailureStaysLocal ==
    \A d \in ConnIds :
        conn[d] = "open" /\ conn'[d] = "ended" /\ task'[d].pc = "dropped" =>
            /\ stderr'[d] = Append(stderr[d], HyperErrorLine)
            /\ \A c \in ConnIds \ {d} : Local(c)' = Local(c)

\* a failed accept is logged, touches no connection, and leaves the loop
\* with the same connection to accept
AcceptGoesOn ==
    listener'.fails # listener.fails =>
        /\ stderr'[Main] = Append(stderr[Main], TcpErrorLine)
        /\ \A c \in ConnIds : Local(c)' = Local(c) /\ (Pending(c)' <=> Pending(c))
        /\ \E c \in ConnIds : Pending(c)'

\* C10: under any interleaving of connections, a failed accept is logged
\* and the loop goes on accepting, a failure on one connection ends that
\* connection's task only, and every answered request has the response it
\* would have alone.
C10_Independent ==
    /\ [](\A c \in ConnIds : Answered(c) => task[c].sent = << Isolated(c) >>)
    /\ [][OneAtATime /\ FailureStaysLocal /\ AcceptGoesOn]_vars

\* C10 witness: a connection was accepted after a failed accept, one
\* connection has failed, and a push on another has since been answered 200.
C10_Witness ==
    /\ listener.recovered
    /\ \E c, d \in ConnIds :
          /\ c # d
          /\ conn[d] = "ended" /\ task[d].pc = "dropped"
          /\ Answered(c) /\ IsEvent(c, "push")
          /\ task[c].sent[1].status = 200

====
